---------------------------- MODULE Spec2Model ----------------------------
(***************************************************************************)
(* Model of the streaming pipeline of OctoPrint-TheSpaghettiDetective:     *)
(* WebcamStreamer (video_pipeline, start_janus, start_gst, start_ffmpeg,   *)
(* the signaling tunnel, restore), its monitor threads, the camera lease   *)
(* of utils.py and the capture queue of PiCamWebServer.                    *)
(*                                                                         *)
(* video_pipeline() and restore() are called by the host on one control    *)
(* task, one call at a time, and video_pipeline() is called on a streamer  *)
(* that is new, or was torn down by restore() and whose threads of the     *)
(* run before have ended.  The monitor threads, the tunnel's on_close      *)
(* callback, the capture loop and the supervised processes run             *)
(* concurrently with the control task; processes exit and tunnels close    *)
(* at any time.                                                            *)
(***************************************************************************)
EXTENDS Integers, Sequences, FiniteSets, TLC

\* ------------------------------------------------------------- bounds
\* calls of video_pipeline() by the host
MaxRuns == 2
\* events injected by the environment: unexpected process exits, tunnel closes
MaxEvents == 2
\* frames the camera produces in the capture-queue specification
MaxFrames == 6
\* tenths of a second that pass in the capture-queue specification
MaxTicks == 2
\* calls of attempt() and of add_connection_error() per error category
MaxCount == 10
\* calls of more() on one ExpoBackoff
MaxMore == 8
\* the largest Content-Length the upstream announces to next_jpg, in bytes
MaxLength == 3

\* ------------------------------------------------- program constants
\* @backoff.on_exception(..., max_tries=5) on __init_camera__
CamMaxTries == 5
\* @backoff.on_exception(..., max_tries=10) on wait_for_janus
JanusProbeMaxTries == 10
\* @backoff.on_exception(..., max_tries=6) on start_gst
GstMaxTries == 6
\* for i in range(5) in start_gst
GstPolls == 5
\* @backoff.on_exception(..., max_tries=4) on wait_for_webcamd
WebcamdMaxTries == 4
\* queue.Queue(maxsize=1)
QueueMaxSize == 1

\* Python's None for a process or tunnel handle
None == 0
\* self.pi_camera / self.webcam_server when they hold no object
NoObj == "None"

VARIABLES
    host,           \* "dev" (JANUS_SERVER set), "nonpi" (pi_version() is None), "pi"
    ctl,            \* the control task: where it is in video_pipeline / restore
    run,            \* what happened in the latest video_pipeline run
    pi_camera,      \* self.pi_camera
    janus_ws,       \* self.janus_ws  (id of the tunnel object, None before the first)
    webcam_server,  \* self.webcam_server
    gst_proc,       \* self.gst_proc   (pid or None)
    ffmpeg_proc,    \* self.ffmpeg_proc
    janus_proc,     \* self.janus_proc
    shutting_down,  \* self.shutting_down
    lease,          \* CAM_EXCLUSIVE_USE exists
    dev,            \* devices and services: camera held / recording, webcamd, frame server
    alive,          \* the running processes: pid -> kind
    gst_zero,       \* the process self.gst_proc names has exited with code 0
    jm,             \* the run_janus thread
    gm,             \* the ensure_gst_process thread
    fm,             \* the monitor_ffmpeg_process thread
    ws,             \* the signaling tunnels and their on_close callbacks
    cnt,            \* the calls of video_pipeline, and what the host has seen
    q,              \* PiCamWebServer: img_q and the capture loop
    tracker,        \* a ConnectionErrorTracker
    backoff,        \* an ExpoBackoff
    dim,            \* a call of bitrate_for_dim
    nj              \* a call of UsbCamWebServer.next_jpg and its upstream

vars == <<host, ctl, run, pi_camera, janus_ws, webcam_server, gst_proc, ffmpeg_proc,
          janus_proc, shutting_down, lease, dev, alive, gst_zero, jm, gm, fm,
          ws, cnt, q, tracker, backoff, dim, nj>>

\* the objects of utils.py and the pure functions, which are checked alone
units == <<tracker, backoff, dim, nj>>

orch == <<pi_camera, janus_ws, webcam_server, gst_proc, ffmpeg_proc, janus_proc,
          shutting_down>>
threads == <<jm, gm, fm>>
ptable == <<alive, gst_zero>>

\* ----------------------------------------------------------- processes
Live == DOMAIN alive

LiveOf(kind) == {p \in Live : alive[p] = kind}

\* pids in use: of a running process, or still named by a handle or read by a
\* monitor thread
UsedPids == Live \cup {janus_proc, gst_proc, ffmpeg_proc}
                 \cup {jm.pid, gm.pid, fm.pid}

\* the pid the system gives the next process: one that is not in use
NewPid == CHOOSE n \in 1..(Cardinality(UsedPids) + 1) :
             /\ n \notin UsedPids
             /\ \A m \in 1..(n - 1) : m \in UsedPids

\* subprocess.Popen(cmd): a new running process
Popen(kind) ==
    alive' = [p \in Live \cup {NewPid} |-> IF p = NewPid THEN kind ELSE alive[p]]

\* the process p, when running, ends
Ended(p) == [x \in Live \ {p} |-> alive[x]]

\* Popen.terminate()
Terminate(p) == alive' = Ended(p)

\* self.gst_proc.poll(): None (here "running") while the process runs, else
\* its exit code
Poll(p) == IF p \in Live THEN "running" ELSE IF gst_zero THEN "zero" ELSE "nonzero"

\* ------------------------------------------------------------ utils.py
\* using_pi_camera(): touch the marker
using_pi_camera == lease' = TRUE

\* not_using_pi_camera(): remove the marker, errors swallowed
not_using_pi_camera == lease' = FALSE

\* ---------------------------------------------------------------- Init
CtlIdle == [pc |-> "idle", compat |-> "auto", n |-> 0, i |-> 0, cont |-> "none",
            caller |-> "none"]

RunNone == [raised |-> "none", absorbed |-> FALSE, warns |-> 0, restores |-> 0,
            path |-> "none", restored |-> "never"]

MonOff == [pc |-> "off", pid |-> None]

MonEnd(pc) == [pc |-> pc, pid |-> None]

QInit == [img_q |-> <<>>, pc |-> "off", chunk |-> 0, captured |-> 0, taken |-> 0,
          stream |-> "off", snap |-> 0, now |-> 1, last_capture |-> 0, dequeues |-> 0]

InitCommon ==
    /\ ctl = CtlIdle
    /\ run = RunNone
    /\ pi_camera = NoObj
    /\ janus_ws = None
    /\ webcam_server = NoObj
    /\ gst_proc = None
    /\ ffmpeg_proc = None
    /\ janus_proc = None
    /\ shutting_down = FALSE
    /\ lease = FALSE
    /\ dev = [camHeld |-> FALSE, recording |-> FALSE, webcamd |-> TRUE, webUp |-> FALSE]
    /\ alive = <<>>
    /\ gst_zero = FALSE
    /\ jm = MonOff
    /\ gm = MonOff
    /\ fm = MonOff
    /\ ws = [open |-> {}, sleeping |-> 0, unanswered |-> 0]
    /\ cnt = [runs |-> 0, torn |-> TRUE, escaped |-> FALSE, events |-> 0]

\* the error categories the plugin reports
Categories == {"server", "octoprint"}

\* ConnectionErrorTracker.__init__: both dicts empty; get(error_type, 0) and
\* get(error_type, []) read a missing key as 0 attempts and no errors.  Of
\* the list of error times only the length is read.
TrackerNew == [attempts |-> [c \in Categories |-> 0],
               errors |-> [c \in Categories |-> 0],
               op |-> "none", cat |-> "none", sent |-> 0]

\* ExpoBackoff.__init__(max_seconds); pre8 and slept64 are the delay before
\* the jitter in 1/8 s and the time slept in 1/64 s of the latest more()
BackoffNew(max_seconds) ==
    [attempts |-> -3, max_seconds |-> max_seconds, since |-> 0, calls |-> 0,
     exp |-> 0, pre8 |-> 0, prev8 |-> 0, slept64 |-> 0]

\* no call of bitrate_for_dim yet
DimNone == [img_w |-> 0, img_h |-> 0, bitrate |-> 0]

\* a call of next_jpg not yet begun, with the upstream it will meet: kind is
\* "valid", "noheader", "short" (the peer closes before all announced bytes
\* are sent) or the place of a socket error; announced is the Content-Length
\* and left the body bytes the peer sends before it closes
NjNew(kind, announced, sends) ==
    [pc |-> "new", sock |-> "none", kind |-> kind, announced |-> announced,
     left |-> sends, length |-> 0, have |-> 0, returned |-> -1, spinning |-> FALSE]

InitUnits ==
    /\ tracker = TrackerNew
    /\ backoff = BackoffNew(120)
    /\ dim = DimNone
    /\ nj = NjNew("valid", 1, 1)

Init ==
    /\ host \in {"dev", "nonpi", "pi"}
    /\ InitCommon
    /\ q = QInit
    /\ InitUnits

\* -------------------------------------------------------------- tunnel
\* the id of the next WebSocketClient object
NewWs == CHOOSE n \in 1..(Cardinality(ws.open \cup {janus_ws}) + 1) :
            /\ n \notin ws.open \cup {janus_ws}
            /\ \A m \in 1..(n - 1) : m \in ws.open \cup {janus_ws}

\* start_janus_ws_tunnel, lines 207-210: a new WebSocketClient replaces
\* self.janus_ws and its thread is started
start_janus_ws_tunnel ==
    /\ janus_ws' = NewWs
    /\ ws' = [ws EXCEPT !.open = @ \cup {NewWs}]

\* --------------------------------------------------- control task helpers
At(pc) == ctl.pc = pc

Goto(pc) == ctl' = [ctl EXCEPT !.pc = pc]

GotoN(pc, n) == ctl' = [ctl EXCEPT !.pc = pc, !.n = n]

\* an exception reaches the bare except of video_pipeline (line 135)
RaiseTo(step) ==
    /\ ctl' = [ctl EXCEPT !.pc = "h_lease"]
    /\ run' = [run EXCEPT !.raised = step]

\* video_pipeline returns normally
Return(path) ==
    /\ ctl' = CtlIdle
    /\ run' = [run EXCEPT !.path = path]

\* backoff.on_exception(max_tries=max): try again, or let the exception out
RetryOrRaise(max, pcRetry, step) ==
    IF ctl.n < max
    THEN /\ ctl' = [ctl EXCEPT !.pc = pcRetry, !.n = @ + 1, !.i = 0]
         /\ run' = run
    ELSE RaiseTo(step)

NewRun(path) == [RunNone EXCEPT !.path = path]

Called == cnt' = [cnt EXCEPT !.runs = @ + 1, !.torn = FALSE]

\* the threads of the run before have ended
Quiescent ==
    /\ jm.pc \in {"off", "exit"}
    /\ gm.pc \in {"off", "exit"}
    /\ fm.pc \in {"off", "exit", "logged"}
    /\ ws.sleeping = 0

CanCall == At("idle") /\ cnt.runs < MaxRuns /\ cnt.torn /\ Quiescent

\* ------------------------------------------- video_pipeline, lines 88-107
\* JANUS_SERVER is set: only the tunnel is opened (lines 89-91)
VpDev ==
    /\ CanCall /\ host = "dev"
    /\ Called
    /\ start_janus_ws_tunnel
    /\ run' = NewRun("dev")
    /\ jm' = MonOff /\ gm' = MonOff /\ fm' = MonOff
    /\ UNCHANGED <<units, host, ctl, pi_camera, webcam_server, gst_proc, ffmpeg_proc, janus_proc,
                   shutting_down, lease, dev, ptable, q>>

\* a video_pipeline that opened the tunnel on a host that is no Pi
VpNotPiTunnel ==
    /\ CanCall /\ host = "nonpi"
    /\ Called
    /\ run' = NewRun("nonpi")
    /\ start_janus_ws_tunnel
    /\ jm' = MonOff /\ gm' = MonOff /\ fm' = MonOff
    /\ UNCHANGED <<units, host, ctl, pi_camera, webcam_server, gst_proc, ffmpeg_proc,
                   janus_proc, shutting_down, lease, dev, ptable, q>>

\* not a Pi: return (lines 93-95)
VpNotPi ==
    /\ CanCall /\ host = "nonpi"
    /\ Called
    /\ run' = NewRun("nonpi")
    /\ jm' = MonOff /\ gm' = MonOff /\ fm' = MonOff
    /\ UNCHANGED <<units, host, ctl, orch, lease, dev, ptable, ws, q>>

\* a mode 'always' that stopped the webcam service before anything else
VpAlwaysStopsWebcamd ==
    /\ CanCall /\ host = "pi"
    /\ Called
    /\ run' = NewRun("running")
    /\ ctl' = [CtlIdle EXCEPT !.pc = "sj_conf", !.compat = "always", !.cont = "mjpeg"]
    /\ dev' = [dev EXCEPT !.webcamd = FALSE]
    /\ jm' = MonOff /\ gm' = MonOff /\ fm' = MonOff
    /\ UNCHANGED <<units, host, orch, lease, ptable, ws, q>>

\* compatible_mode == 'always': start_janus, then ffmpeg_from_mjpeg (lines 100-103)
VpAlways ==
    /\ CanCall /\ host = "pi"
    /\ Called
    /\ run' = NewRun("running")
    /\ ctl' = [CtlIdle EXCEPT !.pc = "sj_conf", !.compat = "always", !.cont = "mjpeg"]
    /\ jm' = MonOff /\ gm' = MonOff /\ fm' = MonOff
    /\ UNCHANGED <<units, host, orch, lease, dev, ptable, ws, q>>

\* otherwise: 'sudo service webcamd stop', then __init_camera__ (lines 105-107)
VpDetect ==
    /\ CanCall /\ host = "pi"
    /\ Called
    /\ run' = NewRun("running")
    /\ \E mode \in {"auto", "never"} :
         ctl' = [CtlIdle EXCEPT !.pc = "cam_lease", !.compat = mode, !.n = 1]
    /\ dev' = [dev EXCEPT !.webcamd = FALSE]
    /\ jm' = MonOff /\ gm' = MonOff /\ fm' = MonOff
    /\ UNCHANGED <<units, host, orch, lease, ptable, ws, q>>

\* ------------------------------------------ __init_camera__, lines 69-86
\* import picamera fails: the exception leaves before the lease is touched
CamImportError ==
    /\ At("cam_lease")
    /\ RetryOrRaise(CamMaxTries, "cam_lease", "camera")
    /\ UNCHANGED <<units, host, orch, lease, dev, ptable, threads, ws, cnt, q>>

\* using_pi_camera() (line 73)
CamLease ==
    /\ At("cam_lease")
    /\ using_pi_camera
    /\ Goto("cam_acq")
    /\ UNCHANGED <<units, host, run, orch, dev, ptable, threads, ws, cnt, q>>

\* picamera.PiCamera() and its configuration succeed (lines 74-79)
CamOk ==
    /\ At("cam_acq")
    /\ pi_camera' = "PiCamera"
    /\ dev' = [dev EXCEPT !.camHeld = TRUE]
    /\ ctl' = [ctl EXCEPT !.pc = "sj_conf", !.cont = "pi"]
    /\ UNCHANGED <<units, host, run, janus_ws, webcam_server, gst_proc, ffmpeg_proc, janus_proc,
                   shutting_down, lease, ptable, threads, ws, cnt, q>>

\* PiCameraError and /dev/video0 exists: the lease is removed, the USB path
\* follows (lines 80-84); self.pi_camera keeps its value
CamUsb ==
    /\ At("cam_acq")
    /\ not_using_pi_camera
    /\ ctl' = [ctl EXCEPT !.pc = "sj_conf", !.cont = IF pi_camera = NoObj THEN "usb" ELSE "pi"]
    /\ UNCHANGED <<units, host, run, orch, dev, ptable, threads, ws, cnt, q>>

\* PiCameraError and no /dev/video0: the lease is removed, the error re-raised
\* (lines 80-86)
CamNone ==
    /\ At("cam_acq")
    /\ not_using_pi_camera
    /\ RetryOrRaise(CamMaxTries, "cam_lease", "camera")
    /\ UNCHANGED <<units, host, orch, dev, ptable, threads, ws, cnt, q>>

\* any other exception inside the try: not caught at line 80, the lease stays
CamOtherError ==
    /\ At("cam_acq")
    /\ RetryOrRaise(CamMaxTries, "cam_lease", "camera")
    /\ UNCHANGED <<units, host, orch, lease, dev, ptable, threads, ws, cnt, q>>

\* ---------------------------------------------- start_janus, lines 149-192
ContPc(cont) == CASE cont = "usb" -> "gst_spawn"
                  [] cont = "pi" -> "ff_start"
                  [] OTHER -> "mj_webcamd"

\* ensure_janus_config() succeeds and the run_janus thread is started
\* (lines 180-183)
SjConf ==
    /\ At("sj_conf")
    /\ jm' = [pc |-> "spawn", pid |-> None]
    /\ GotoN("sj_probe", 1)
    /\ UNCHANGED <<units, host, run, orch, lease, dev, ptable, gm, fm, ws, cnt, q>>

\* ensure_janus_config() raises (the template cannot be read or written)
SjConfError ==
    /\ At("sj_conf")
    /\ RaiseTo("gateway")
    /\ UNCHANGED <<units, host, orch, lease, dev, ptable, threads, ws, cnt, q>>

\* a start_janus that opened the tunnel without waiting for the gateway
SjProbeOkBlind ==
    /\ At("sj_probe")
    /\ start_janus_ws_tunnel
    /\ run' = run
    /\ ctl' = [ctl EXCEPT !.pc = ContPc(ctl.cont), !.n = 1, !.i = 0]
    /\ UNCHANGED <<units, host, pi_camera, webcam_server, gst_proc, ffmpeg_proc, janus_proc,
                   shutting_down, lease, dev, ptable, threads, cnt, q>>

\* wait_for_janus succeeds: a gateway process is up and accepts the connection;
\* start_janus_ws_tunnel follows (lines 185-192)
SjProbeOk ==
    /\ At("sj_probe")
    /\ LiveOf("janus") # {}
    /\ start_janus_ws_tunnel
    /\ run' = run
    /\ ctl' = [ctl EXCEPT !.pc = ContPc(ctl.cont), !.n = 1, !.i = 0]
    /\ UNCHANGED <<units, host, pi_camera, webcam_server, gst_proc, ffmpeg_proc, janus_proc,
                   shutting_down, lease, dev, ptable, threads, cnt, q>>

\* wait_for_janus fails: retried up to max_tries=10, then the exception leaves
SjProbeFail ==
    /\ At("sj_probe")
    /\ RetryOrRaise(JanusProbeMaxTries, "sj_probe", "probe")
    /\ UNCHANGED <<units, host, orch, lease, dev, ptable, threads, ws, cnt, q>>

\* ------------------------------------------------ start_gst, lines 268-305
\* Popen(run_gst.sh) (line 272)
GstSpawn ==
    /\ At("gst_spawn")
    /\ Popen("gst")
    /\ gst_proc' = NewPid
    /\ gst_zero' = FALSE
    /\ ctl' = [ctl EXCEPT !.pc = "gst_poll", !.i = 0]
    /\ UNCHANGED <<units, host, run, pi_camera, janus_ws, webcam_server, ffmpeg_proc, janus_proc,
                   shutting_down, lease, dev, threads, ws, cnt, q>>

\* one round of the loop of lines 273-280 that does not raise
PollNext == ctl' = [ctl EXCEPT !.i = @ + 1,
                               !.pc = IF ctl.i + 1 = GstPolls THEN "gst_mon" ELSE "gst_poll"]

\* a start_gst whose backoff allowed one try more
GstAttemptFailedOneMore ==
    IF ctl.n <= GstMaxTries
    THEN /\ ctl' = [ctl EXCEPT !.pc = "gst_spawn", !.n = @ + 1, !.i = 0]
         /\ run' = run
    ELSE IF ctl.compat = "never"
         THEN RaiseTo("gst")
         ELSE /\ ctl' = [ctl EXCEPT !.pc = "mj_webcamd", !.n = 1, !.i = 0]
              /\ run' = [run EXCEPT !.absorbed = TRUE]

\* the attempt raised (line 279): backoff retries it; after max_tries=6 the
\* exception leaves start_gst, and video_pipeline's inner except (lines 115-119)
\* re-raises it in mode 'never' and goes to ffmpeg_from_mjpeg otherwise
GstAttemptFailed ==
    IF ctl.n < GstMaxTries
    THEN /\ ctl' = [ctl EXCEPT !.pc = "gst_spawn", !.n = @ + 1, !.i = 0]
         /\ run' = run
    ELSE IF ctl.compat = "never"
         THEN RaiseTo("gst")
         ELSE /\ ctl' = [ctl EXCEPT !.pc = "mj_webcamd", !.n = 1, !.i = 0]
              /\ run' = [run EXCEPT !.absorbed = TRUE]

\* poll() returns None: the process is running
GstPollRunning ==
    /\ At("gst_poll")
    /\ Poll(gst_proc) = "running"
    /\ PollNext
    /\ UNCHANGED <<units, host, run, orch, lease, dev, ptable, threads, ws, cnt, q>>

\* the process has exited with a code other than 0 (now, or before this poll)
GstPollFailed ==
    /\ At("gst_poll")
    /\ Poll(gst_proc) \in {"running", "nonzero"}
    /\ alive' = Ended(gst_proc)
    /\ GstAttemptFailed
    /\ UNCHANGED <<units, host, orch, lease, dev, gst_zero, threads, ws, cnt, q>>

\* the process has exited with code 0: "if return_code" is false
GstPollZero ==
    /\ At("gst_poll")
    /\ Poll(gst_proc) \in {"running", "zero"}
    /\ alive' = Ended(gst_proc)
    /\ gst_zero' = TRUE
    /\ PollNext
    /\ UNCHANGED <<units, host, run, orch, lease, dev, threads, ws, cnt, q>>

\* the ensure_gst_process thread is started (lines 303-305) and reads
\* self.gst_proc.stderr
GstMon ==
    /\ At("gst_mon")
    /\ gm' = [pc |-> "read", pid |-> gst_proc]
    /\ Goto("usb_server")
    /\ UNCHANGED <<units, host, run, orch, lease, dev, ptable, jm, fm, ws, cnt, q>>

\* UsbCamWebServer().start() and start_gst_memory_guard() (lines 121-124)
UsbServer ==
    /\ At("usb_server")
    /\ webcam_server' = "UsbCamWebServer"
    /\ dev' = [dev EXCEPT !.webUp = TRUE]
    /\ Return("usb")
    /\ UNCHANGED <<units, host, pi_camera, janus_ws, gst_proc, ffmpeg_proc, janus_proc,
                   shutting_down, lease, ptable, threads, ws, cnt, q>>

\* --------------------------------------------- start_ffmpeg, lines 230-258
\* Popen(ffmpeg) and the monitor_ffmpeg_process thread
start_ffmpeg ==
    /\ Popen("ffmpeg")
    /\ ffmpeg_proc' = NewPid
    /\ fm' = [pc |-> "read", pid |-> NewPid]

\* dedicated camera: start_ffmpeg(... pipe:0 ...) (line 129)
FfStartPi ==
    /\ At("ff_start")
    /\ start_ffmpeg
    /\ Goto("pi_server")
    /\ UNCHANGED <<units, host, run, pi_camera, janus_ws, webcam_server, gst_proc, janus_proc,
                   shutting_down, lease, dev, gst_zero, jm, gm, ws, cnt, q>>

\* Popen raises (the executable cannot be launched)
FfStartError ==
    /\ At("ff_start") \/ At("mj_ffmpeg")
    /\ RaiseTo("encoder")
    /\ UNCHANGED <<units, host, orch, lease, dev, ptable, threads, ws, cnt, q>>

\* PiCamWebServer(self.pi_camera).start() (lines 131-132)
PiServer ==
    /\ At("pi_server")
    /\ webcam_server' = "PiCamWebServer"
    /\ dev' = [dev EXCEPT !.webUp = TRUE]
    /\ Goto("pi_record")
    /\ UNCHANGED <<units, host, run, pi_camera, janus_ws, gst_proc, ffmpeg_proc, janus_proc,
                   shutting_down, lease, ptable, threads, ws, cnt, q>>

\* pi_camera.start_recording(...) and wait_recording(0) (lines 133-134)
PiRecord ==
    /\ At("pi_record")
    /\ dev' = [dev EXCEPT !.recording = TRUE]
    /\ Return("pi")
    /\ UNCHANGED <<units, host, orch, lease, ptable, threads, ws, cnt, q>>

\* start_recording or wait_recording raises
PiRecordError ==
    /\ At("pi_record")
    /\ RaiseTo("recording")
    /\ UNCHANGED <<units, host, orch, lease, dev, ptable, threads, ws, cnt, q>>

\* ----------------------------------------- ffmpeg_from_mjpeg, lines 212-227
\* 'sudo service webcamd start' (line 218)
MjWebcamd ==
    /\ At("mj_webcamd")
    /\ dev' = [dev EXCEPT !.webcamd = TRUE]
    /\ GotoN("mj_wait", 1)
    /\ UNCHANGED <<units, host, run, orch, lease, ptable, threads, ws, cnt, q>>

\* wait_for_webcamd: capture_jpeg returns a frame (lines 220-224)
MjWaitOk ==
    /\ At("mj_wait")
    /\ Goto("mj_ffmpeg")
    /\ UNCHANGED <<units, host, run, orch, lease, dev, ptable, threads, ws, cnt, q>>

\* capture_jpeg raises: retried up to max_tries=4
MjWaitFail ==
    /\ At("mj_wait")
    /\ RetryOrRaise(WebcamdMaxTries, "mj_wait", "mjpeg")
    /\ UNCHANGED <<units, host, orch, lease, dev, ptable, threads, ws, cnt, q>>

\* start_ffmpeg(... h264_omx, via_wrapper=True), then return (lines 226-227)
FfStartMjpeg ==
    /\ At("mj_ffmpeg")
    /\ start_ffmpeg
    /\ Return("mjpeg")
    /\ UNCHANGED <<units, host, pi_camera, janus_ws, webcam_server, gst_proc, janus_proc,
                   shutting_down, lease, dev, gst_zero, jm, gm, ws, cnt, q>>

\* ------------------------------ video_pipeline's handler, lines 135-143
\* not_using_pi_camera() (line 136)
HLease ==
    /\ At("h_lease")
    /\ not_using_pi_camera
    /\ Goto("h_warn")
    /\ UNCHANGED <<units, host, run, orch, dev, ptable, threads, ws, cnt, q>>

\* a handler that warned and returned without restore()
HWarnOnly ==
    /\ At("h_warn")
    /\ run' = [run EXCEPT !.warns = @ + 1, !.path = "failed"]
    /\ ctl' = CtlIdle
    /\ UNCHANGED <<units, host, orch, lease, dev, ptable, threads, ws, cnt, q>>

\* send_plugin_message({'new_warning': 'streaming'}), sleep(3), then
\* self.restore() is entered (lines 137-140)
HWarn ==
    /\ At("h_warn")
    /\ run' = [run EXCEPT !.warns = @ + 1, !.restores = @ + 1]
    /\ ctl' = [ctl EXCEPT !.pc = "r_flag", !.caller = "video_pipeline"]
    /\ UNCHANGED <<units, host, orch, lease, dev, ptable, threads, ws, cnt, q>>

\* ---------------------------------------------------- restore, lines 307-345
\* the host calls restore() itself
RestoreCall ==
    /\ At("idle")
    /\ ctl' = [CtlIdle EXCEPT !.pc = "r_flag", !.caller = "host"]
    /\ run' = [RunNone EXCEPT !.path = "restoring", !.restored = run.restored]
    /\ UNCHANGED <<units, host, orch, lease, dev, ptable, threads, ws, cnt, q>>

\* "try: ... except: pass": whether an exception raised inside leaves the block
ExceptReraise(raised) == raised

ExceptPass(raised) == FALSE

\* an exception leaves restore(): it propagates to the caller of restore(), and
\* from video_pipeline's handler to the host
RestoreRaises ==
    /\ ctl' = CtlIdle
    /\ cnt' = [cnt EXCEPT !.escaped = TRUE]

\* self.shutting_down = True, then requests.post('/shutdown'), which fails when
\* no frame server listens (lines 308-313)
RFlag ==
    /\ At("r_flag")
    /\ shutting_down' = TRUE
    /\ IF ExceptPass(~dev.webUp)
       THEN RestoreRaises /\ dev' = dev
       ELSE /\ dev' = [dev EXCEPT !.webUp = FALSE]
            /\ Goto("r_janus")
            /\ cnt' = cnt
    /\ UNCHANGED <<units, host, run, pi_camera, janus_ws, webcam_server, gst_proc, ffmpeg_proc,
                   janus_proc, lease, ptable, threads, ws, q>>

\* a restore() with one try around all its stops: a terminate() that raises
\* skips the stops that follow
StopProcOneTry(handle, next) ==
    IF handle = None
    THEN Goto(next) /\ UNCHANGED <<alive, cnt>>
    ELSE \E raised \in (IF handle \in Live THEN {FALSE} ELSE BOOLEAN) :
           IF raised
           THEN Goto("r_webcamd") /\ UNCHANGED <<alive, cnt>>
           ELSE Terminate(handle) /\ Goto(next) /\ cnt' = cnt

\* "if self.X_proc: try: self.X_proc.terminate() except: pass"; terminate() may
\* raise when the process is gone
StopProc(handle, next) ==
    IF handle = None
    THEN Goto(next) /\ UNCHANGED <<alive, cnt>>
    ELSE \E raised \in (IF handle \in Live THEN {FALSE} ELSE BOOLEAN) :
           IF ExceptPass(raised)
           THEN RestoreRaises /\ alive' = alive
           ELSE Terminate(handle) /\ Goto(next) /\ cnt' = cnt

\* lines 314-318
RJanus ==
    /\ At("r_janus")
    /\ StopProc(janus_proc, "r_gst")
    /\ UNCHANGED <<units, host, run, orch, lease, dev, gst_zero, threads, ws, q>>

\* lines 319-323
RGst ==
    /\ At("r_gst")
    /\ StopProc(gst_proc, "r_ffmpeg")
    /\ UNCHANGED <<units, host, run, orch, lease, dev, gst_zero, threads, ws, q>>

\* lines 324-328
RFfmpeg ==
    /\ At("r_ffmpeg")
    /\ StopProc(ffmpeg_proc, "r_camera")
    /\ UNCHANGED <<units, host, run, orch, lease, dev, gst_zero, threads, ws, q>>

\* "if self.pi_camera:" stop_recording(), which raises when the camera is not
\* recording, and close(), each in its own try (lines 329-338)
RCamera ==
    /\ At("r_camera")
    /\ IF pi_camera = NoObj
       THEN Goto("r_webcamd") /\ UNCHANGED <<dev, cnt>>
       ELSE IF ExceptPass(~dev.recording)
            THEN RestoreRaises /\ dev' = dev
            ELSE /\ dev' = [dev EXCEPT !.recording = FALSE, !.camHeld = FALSE]
                 /\ Goto("r_webcamd")
                 /\ cnt' = cnt
    /\ UNCHANGED <<units, host, run, orch, lease, ptable, threads, ws, q>>

\* sarge.run('sudo service webcamd start') (line 340)
RWebcamd ==
    /\ At("r_webcamd")
    /\ dev' = [dev EXCEPT !.webcamd = TRUE]
    /\ Goto("r_clear")
    /\ UNCHANGED <<units, host, run, orch, lease, ptable, threads, ws, cnt, q>>

\* the four handles are set to None and restore() returns (lines 342-345); from
\* the handler, video_pipeline then returns (lines 141-143)
RClear ==
    /\ At("r_clear")
    /\ janus_proc' = None
    /\ gst_proc' = None
    /\ ffmpeg_proc' = None
    /\ pi_camera' = NoObj
    /\ gst_zero' = FALSE
    /\ ctl' = CtlIdle
    /\ run' = [run EXCEPT !.path = IF ctl.caller = "host" THEN "restored" ELSE "failed",
                           !.restored = IF @ = "never" THEN "once" ELSE "again"]
    /\ cnt' = [cnt EXCEPT !.torn = TRUE]
    /\ UNCHANGED <<units, host, janus_ws, webcam_server, shutting_down, lease, dev, alive,
                   threads, ws, q>>

\* ------------------------------------------- run_janus thread, lines 161-175
\* a monitor that kept reading the process it read first
ReadStale(mon, handle) == IF mon.pid # None THEN mon.pid ELSE handle

\* the handle a monitor reads its process's output from: it reads self.X_proc
\* anew at every readline (lines 168, 286)
ReadHandle(mon, handle) == handle

\* a loop that entered the readline without looking at shutting_down
JanusLoopUnflagged(mon, p) == [pc |-> "read", pid |-> ReadHandle(mon, p)]

\* "while not self.shutting_down:" and the readline it enters (lines 167-168),
\* after self.janus_proc was set to the process with pid p
JanusLoop(mon, p) ==
    IF shutting_down THEN MonEnd("exit")
    ELSE [pc |-> "read", pid |-> ReadHandle(mon, p)]

\* the first Popen (line 165), then the loop
JanusSpawn ==
    /\ jm.pc = "spawn"
    /\ Popen("janus")
    /\ janus_proc' = NewPid
    /\ jm' = JanusLoop(jm, NewPid)
    /\ UNCHANGED <<units, host, ctl, run, pi_camera, janus_ws, webcam_server, gst_proc, ffmpeg_proc,
                   shutting_down, lease, dev, gst_zero, gm, fm, ws, cnt, q>>

\* readline returns '' once the process has exited; "elif not
\* self.shutting_down": wait() and janus_backoff.more(), which sleeps
\* (lines 169-174); when shutting down the loop ends
JanusEOF ==
    /\ jm.pc = "read"
    /\ jm.pid \notin Live
    /\ jm' = IF shutting_down THEN MonEnd("exit") ELSE [jm EXCEPT !.pc = "backoff"]
    /\ UNCHANGED <<units, host, ctl, run, orch, lease, dev, ptable, gm, fm, ws, cnt, q>>

\* the sleep is over: Popen again (line 175), then the loop
JanusRespawn ==
    /\ jm.pc = "backoff"
    /\ Popen("janus")
    /\ janus_proc' = NewPid
    /\ jm' = JanusLoop(jm, NewPid)
    /\ UNCHANGED <<units, host, ctl, run, pi_camera, janus_ws, webcam_server, gst_proc, ffmpeg_proc,
                   shutting_down, lease, dev, gst_zero, gm, fm, ws, cnt, q>>

\* ----------------------------------- ensure_gst_process thread, lines 282-301
\* readline returns '': return when shutting down, else wait() and
\* gst_backoff.more() (lines 286-294)
GstEOF ==
    /\ gm.pc = "read"
    /\ gm.pid \notin Live
    /\ gm' = IF shutting_down THEN MonEnd("exit") ELSE [gm EXCEPT !.pc = "backoff"]
    /\ UNCHANGED <<units, host, ctl, run, orch, lease, dev, ptable, jm, fm, ws, cnt, q>>

\* the sleep is over: Popen again, and the loop reads the new process
\* (lines 296-299, 286)
GstRespawn ==
    /\ gm.pc = "backoff"
    /\ Popen("gst")
    /\ gst_proc' = NewPid
    /\ gst_zero' = FALSE
    /\ gm' = [pc |-> "read", pid |-> ReadHandle(gm, NewPid)]
    /\ UNCHANGED <<units, host, ctl, run, pi_camera, janus_ws, webcam_server, ffmpeg_proc, janus_proc,
                   shutting_down, lease, dev, jm, fm, ws, cnt, q>>

\* ------------------------------- monitor_ffmpeg_process thread, lines 241-254
\* a monitor that respawned the encoder as the other two do
FfmpegEOFRespawn ==
    /\ fm.pc = "read"
    /\ fm.pid \notin Live
    /\ IF shutting_down
       THEN /\ fm' = MonEnd("exit")
            /\ UNCHANGED <<ffmpeg_proc, alive>>
       ELSE /\ Popen("ffmpeg")
            /\ ffmpeg_proc' = NewPid
            /\ fm' = [fm EXCEPT !.pid = NewPid]
    /\ UNCHANGED <<units, host, ctl, run, pi_camera, janus_ws, webcam_server, gst_proc, janus_proc,
                   shutting_down, lease, dev, gst_zero, jm, gm, ws, cnt, q>>

\* readline returns '': return when shutting down; else wait(), log the exit
\* code and the last lines of stderr, and return
FfmpegEOF ==
    /\ fm.pc = "read"
    /\ fm.pid \notin Live
    /\ fm' = MonEnd(IF shutting_down THEN "exit" ELSE "logged")
    /\ UNCHANGED <<units, host, ctl, run, orch, lease, dev, ptable, jm, gm, ws, cnt, q>>

\* ------------------------------------------------------------ environment
\* a running process exits on its own (a crash, or the memory guard's kill)
ProcExit(p) ==
    /\ p \in Live /\ cnt.events < MaxEvents
    /\ alive' = Ended(p) /\ cnt' = [cnt EXCEPT !.events = @ + 1]
    /\ UNCHANGED <<units, host, ctl, run, orch, lease, dev, gst_zero, threads, ws, q>>

\* an open tunnel closes: WebSocketClient calls on_close, which enters
\* janus_ws_backoff.more() and sleeps (lines 196-197)
WsClose(t) ==
    /\ t \in ws.open /\ cnt.events < MaxEvents /\ cnt' = [cnt EXCEPT !.events = @ + 1]
    /\ ws' = [ws EXCEPT !.open = @ \ {t},
                        !.sleeping = @ + 1,
                        !.unanswered = IF shutting_down THEN @ ELSE @ + 1]
    /\ UNCHANGED <<units, host, ctl, run, orch, lease, dev, ptable, threads, q>>

\* --------------------------------------------------- on_close, lines 196-200
\* an on_close that reopened without looking at shutting_down
on_close_always ==
    /\ ws.sleeping > 0
    /\ janus_ws' = NewWs
    /\ ws' = [ws EXCEPT !.open = @ \cup {NewWs}, !.unanswered = @ - 1, !.sleeping = @ - 1]
    /\ UNCHANGED <<units, host, ctl, run, pi_camera, webcam_server, gst_proc, ffmpeg_proc,
                   janus_proc, shutting_down, lease, dev, ptable, threads, cnt, q>>

\* the sleep of more() is over: "if not self.shutting_down:
\* self.start_janus_ws_tunnel()"
on_close ==
    /\ ws.sleeping > 0
    /\ IF ~shutting_down
       THEN /\ janus_ws' = NewWs
            /\ ws' = [ws EXCEPT !.open = @ \cup {NewWs}, !.unanswered = @ - 1,
                                !.sleeping = @ - 1]
       ELSE /\ janus_ws' = janus_ws
            /\ ws' = [ws EXCEPT !.sleeping = @ - 1]
    /\ UNCHANGED <<units, host, ctl, run, pi_camera, webcam_server, gst_proc, ffmpeg_proc,
                   janus_proc, shutting_down, lease, dev, ptable, threads, cnt, q>>

\* ------------------------------------------ PiCamWebServer, lines 415-462
\* frames are numbered in the order capture_continuous yields them
\* a put that replaced the pending frame instead of waiting
QueuePutOverwrite(queue, item) == [blocks |-> FALSE, queue |-> <<item>>]

\* queue.Queue(maxsize=1).put(item): waits while the queue is full
QueuePut(queue, item) ==
    IF Len(queue) < QueueMaxSize
    THEN [blocks |-> FALSE, queue |-> Append(queue, item)]
    ELSE [blocks |-> TRUE, queue |-> queue]

\* capture_forever: capture_continuous yields the next frame, which is read
\* into chunk (lines 425-433)
Capture ==
    /\ q.pc = "capture"
    /\ q.captured < MaxFrames
    /\ q' = [q EXCEPT !.pc = "put", !.captured = @ + 1, !.chunk = q.captured + 1,
                      !.last_capture = q.now]
    /\ UNCHANGED <<units, host, ctl, run, orch, lease, dev, ptable, threads, ws, cnt>>

\* self.img_q.put(chunk) (line 435) goes through once the queue has room
Put ==
    /\ q.pc = "put"
    /\ ~QueuePut(q.img_q, q.chunk).blocks
    /\ q' = [q EXCEPT !.pc = "capture", !.img_q = QueuePut(q.img_q, q.chunk).queue]
    /\ UNCHANGED <<units, host, ctl, run, orch, lease, dev, ptable, threads, ws, cnt>>

\* a client opens the MJPEG stream: mjpeg_generator starts (line 441)
StreamOpen ==
    /\ q.stream = "off"
    /\ q' = [q EXCEPT !.stream = "get"]
    /\ UNCHANGED <<units, host, ctl, run, orch, lease, dev, ptable, threads, ws, cnt>>

\* chunk = self.img_q.get() in mjpeg_generator (line 442), then the yield
StreamGet ==
    /\ q.stream = "get"
    /\ q.img_q # <<>>
    /\ q' = [q EXCEPT !.img_q = Tail(@), !.taken = @ + 1, !.stream = "sleep"]
    /\ UNCHANGED <<units, host, ctl, run, orch, lease, dev, ptable, threads, ws, cnt>>

\* time.sleep(0.15) is over (line 446); or the client went away (GeneratorExit)
StreamSleep ==
    /\ q.stream = "sleep"
    /\ \E next \in {"get", "off"} : q' = [q EXCEPT !.stream = next]
    /\ UNCHANGED <<units, host, ctl, run, orch, lease, dev, ptable, threads, ws, cnt>>

\* get_snapshot is entered: possible_stale_pics = 3 (line 452)
SnapshotOpen ==
    /\ q.snap = 0
    /\ q' = [q EXCEPT !.snap = 3, !.dequeues = 0]
    /\ UNCHANGED <<units, host, ctl, run, orch, lease, dev, ptable, threads, ws, cnt>>

\* "if gap < 0.1:" (line 457), the gap in tenths of a second
CountsDown(gap) == gap < 1

\* one round of get_snapshot's loop (lines 453-460): get(), then gap =
\* time.time() - self.last_capture; with a gap below 0.1 s the counter goes
\* down, and at 0 the frame is returned
SnapshotGet ==
    /\ q.snap > 0
    /\ q.img_q # <<>>
    /\ q' = [q EXCEPT !.img_q = Tail(@), !.taken = @ + 1, !.dequeues = @ + 1,
                      !.snap = IF CountsDown(q.now - q.last_capture) THEN @ - 1 ELSE @]
    /\ UNCHANGED <<units, host, ctl, run, orch, lease, dev, ptable, threads, ws, cnt>>

\* a tenth of a second passes
Tick ==
    /\ q.now <= MaxTicks
    /\ q' = [q EXCEPT !.now = @ + 1]
    /\ UNCHANGED <<units, host, ctl, run, orch, lease, dev, ptable, threads, ws, cnt>>

\* the streamer and its frame server, which the objects checked alone leave
streamer == <<host, ctl, run, orch, lease, dev, ptable, threads, ws, cnt, q>>

\* ------------------------------------ ConnectionErrorTracker, utils.py 41-73
\* a notify_client_if_needed_for_error without the last test
NotifyNeededNoQuarter(attempts, errors) ==
    IF attempts < 8 THEN FALSE
    ELSE IF attempts < 10 /\ errors * 2 < attempts THEN FALSE
    ELSE TRUE

\* notify_client_if_needed_for_error (lines 57-70): TRUE when it reaches
\* send_plugin_message.  len(errors) < attempts * 0.5 is 2 * len(errors) <
\* attempts, and len(errors) < attempts * 0.25 is 4 * len(errors) < attempts:
\* the float products are exact
NotifyNeeded(attempts, errors) ==
    IF attempts < 8 THEN FALSE
    ELSE IF attempts < 10 /\ errors * 2 < attempts THEN FALSE
    ELSE IF errors * 4 < attempts THEN FALSE
    ELSE TRUE

\* attempt(error_type) (lines 48-50)
attempt(c) ==
    /\ tracker.attempts[c] < MaxCount
    /\ tracker' = [tracker EXCEPT !.attempts[c] = @ + 1,
                                  !.op = "attempt", !.cat = c, !.sent = 0]
    /\ UNCHANGED <<streamer, backoff, dim, nj>>

\* add_connection_error(error_type) (lines 52-55): the error is appended, then
\* notify_client_if_needed_for_error sends or does not
add_connection_error(c) ==
    /\ tracker.errors[c] < MaxCount
    /\ tracker' = [tracker EXCEPT
            !.errors[c] = @ + 1,
            !.op = "add_connection_error", !.cat = c,
            !.sent = IF NotifyNeeded(tracker.attempts[c], tracker.errors[c] + 1)
                     THEN 1 ELSE 0]
    /\ UNCHANGED <<streamer, backoff, dim, nj>>

\* ------------------------------------------------ ExpoBackoff, utils.py 20-38
RECURSIVE Pow2(_)
\* 2 ** n for n >= 0
Pow2(n) == IF n <= 0 THEN 1 ELSE 2 * Pow2(n - 1)

\* the ceilings tried, in seconds
MaxSecondsTried == {1, 3, 8}

\* a more() that did not apply the ceiling
Uncapped8(delay8, max_seconds) == delay8

\* "if delay > self.max_seconds: delay = self.max_seconds" (lines 32-33), on
\* delays in 1/8 s
Capped8(delay8, max_seconds) ==
    IF delay8 > 8 * max_seconds THEN 8 * max_seconds ELSE delay8

\* more(e) (lines 29-38): the counter goes up first, then delay = 2 **
\* attempts, the ceiling, and the jitter 0.5 + random.random(), here
\* (4 + r8) / 8 with r8 in 0..7; the thread sleeps that long
more(r8) ==
    /\ backoff.calls < MaxMore
    /\ LET attempts == backoff.attempts + 1
           delay8 == Capped8(Pow2(attempts + 3), backoff.max_seconds)
       IN  backoff' = [backoff EXCEPT !.attempts = attempts,
                                      !.exp = attempts,
                                      !.prev8 = backoff.pre8,
                                      !.pre8 = delay8,
                                      !.slept64 = delay8 * (4 + r8),
                                      !.since = @ + 1,
                                      !.calls = @ + 1]
    /\ UNCHANGED <<streamer, tracker, dim, nj>>

\* reset() (lines 26-27)
reset ==
    /\ backoff.since > 0
    /\ backoff' = [backoff EXCEPT !.attempts = -3, !.since = 0, !.pre8 = 0, !.prev8 = 0]
    /\ UNCHANGED <<streamer, tracker, dim, nj>>

\* ------------------------------------ bitrate_for_dim, webcam_stream.py 44-53
\* the image widths and heights tried: the tier edges and their neighbours
WidthsTried == {270, 479, 480, 481, 959, 960, 961, 1639, 1640, 1641, 1920}
HeightsTried == {269, 270, 271, 480, 539, 540, 541, 921, 922, 923, 1080}

\* a bitrate_for_dim whose tests excluded the edge
bitrate_for_dim_strict(img_w, img_h) ==
    LET d == img_w * img_h
    IN  IF d < 480 * 270 THEN 200000
        ELSE IF d < 960 * 540 THEN 1000000
        ELSE IF d < 1640 * 922 THEN 3000000
        ELSE 6000000

\* bitrate_for_dim(img_w, img_h)
bitrate_for_dim(img_w, img_h) ==
    LET d == img_w * img_h
    IN  IF d <= 480 * 270 THEN 200000
        ELSE IF d <= 960 * 540 THEN 1000000
        ELSE IF d <= 1640 * 922 THEN 3000000
        ELSE 6000000

\* the call with the dimensions drawn at the start
BitrateCall ==
    /\ dim.bitrate = 0
    /\ dim' = [dim EXCEPT !.bitrate = bitrate_for_dim(dim.img_w, dim.img_h)]
    /\ UNCHANGED <<streamer, tracker, backoff, nj>>

\* ------------------------- UsbCamWebServer.next_jpg, webcam_stream.py 370-389
\* an exception leaves next_jpg; "finally: s.close()" runs first
NjFail == nj' = [nj EXCEPT !.pc = "failed", !.sock = "closed"]

\* socket.socket() and s.connect (lines 371-373)
NjConnect ==
    /\ nj.pc = "new"
    /\ IF nj.kind = "error_connect"
       THEN NjFail
       ELSE nj' = [nj EXCEPT !.pc = "header", !.sock = "open"]
    /\ UNCHANGED <<streamer, tracker, backoff, dim>>

\* chunk = s.recv(100), the search for Content-Length, and the bytes of the
\* first chunk that follow the header (lines 374-380)
NjHeader ==
    /\ nj.pc = "header"
    /\ IF nj.kind \in {"error_header", "noheader"}
       THEN NjFail
       ELSE \E first \in 0..nj.left :
              nj' = [nj EXCEPT !.pc = "body", !.length = nj.announced,
                               !.have = first, !.left = @ - first]
    /\ UNCHANGED <<streamer, tracker, backoff, dim>>

\* "while length > len(chunk): chunk.extend(s.recv(length-len(chunk)))" (lines
\* 381-382): recv raises, returns some of the bytes asked for, or returns b''
\* once the peer has closed
NjRecv ==
    /\ nj.pc = "body"
    /\ nj.length > nj.have
    /\ IF nj.kind = "error_body"
       THEN NjFail
       ELSE IF nj.left > 0
       THEN \E k \in 1..nj.left :
              /\ k <= nj.length - nj.have
              /\ nj' = [nj EXCEPT !.have = @ + k, !.left = @ - k]
       ELSE nj' = [nj EXCEPT !.spinning = TRUE]
    /\ UNCHANGED <<streamer, tracker, backoff, dim>>

\* "return chunk[:length]" (line 383), then the finally
NjReturn ==
    /\ nj.pc = "body"
    /\ nj.length <= nj.have
    /\ nj' = [nj EXCEPT !.pc = "returned", !.sock = "closed",
                        !.returned = IF nj.have < nj.length THEN nj.have ELSE nj.length]
    /\ UNCHANGED <<streamer, tracker, backoff, dim>>

\* ------------------------------------------------------------------- Spec
Control ==
    \/ VpDev \/ VpNotPi \/ VpAlways \/ VpDetect
    \/ CamImportError \/ CamLease \/ CamOk \/ CamUsb \/ CamNone \/ CamOtherError
    \/ SjConf \/ SjConfError \/ SjProbeOk \/ SjProbeFail
    \/ GstSpawn \/ GstPollRunning \/ GstPollFailed \/ GstPollZero \/ GstMon \/ UsbServer
    \/ FfStartPi \/ FfStartError \/ PiServer \/ PiRecord \/ PiRecordError
    \/ MjWebcamd \/ MjWaitOk \/ MjWaitFail \/ FfStartMjpeg
    \/ HLease \/ HWarn
    \/ RestoreCall \/ RFlag \/ RJanus \/ RGst \/ RFfmpeg \/ RCamera \/ RWebcamd \/ RClear

Monitors ==
    \/ JanusSpawn \/ JanusEOF \/ JanusRespawn
    \/ GstEOF \/ GstRespawn
    \/ FfmpegEOF

Environment ==
    \/ \E p \in Live : ProcExit(p)
    \/ \E t \in ws.open : WsClose(t)
    \/ on_close

Next == Control \/ Monitors \/ Environment

Spec == Init /\ [][Next]_vars

\* the capture queue taken alone: the frame server of a streamer whose
\* capture_forever thread has been started (lines 486-492)
InitQ ==
    /\ host = "pi"
    /\ InitCommon
    /\ q = [QInit EXCEPT !.pc = "capture"]
    /\ InitUnits

NextQ ==
    \/ Capture \/ Put \/ StreamOpen \/ StreamGet \/ StreamSleep \/ SnapshotOpen \/ SnapshotGet
    \/ Tick

SpecQ == InitQ /\ [][NextQ]_vars

\* a ConnectionErrorTracker taken alone
InitTracker ==
    /\ host = "pi"
    /\ InitCommon
    /\ q = QInit
    /\ InitUnits

NextTracker == \E c \in Categories : attempt(c) \/ add_connection_error(c)

SpecTracker == InitTracker /\ [][NextTracker]_vars

\* an ExpoBackoff taken alone, with one of the ceilings tried
InitBackoff ==
    /\ host = "pi"
    /\ InitCommon
    /\ q = QInit
    /\ tracker = TrackerNew
    /\ dim = DimNone
    /\ nj = NjNew("valid", 1, 1)
    /\ backoff \in {BackoffNew(m) : m \in MaxSecondsTried}

NextBackoff == (\E r8 \in 0..7 : more(r8)) \/ reset

SpecBackoff == InitBackoff /\ [][NextBackoff]_vars

\* bitrate_for_dim taken alone, on each of the dimensions tried
InitBitrate ==
    /\ host = "pi"
    /\ InitCommon
    /\ q = QInit
    /\ tracker = TrackerNew
    /\ backoff = BackoffNew(120)
    /\ nj = NjNew("valid", 1, 1)
    /\ dim \in {[DimNone EXCEPT !.img_w = w, !.img_h = h] : w \in WidthsTried, h \in HeightsTried}

NextBitrate == BitrateCall

SpecBitrate == InitBitrate /\ [][NextBitrate]_vars

\* the upstreams next_jpg is tried on
Upstreams ==
    {NjNew(kind, announced, announced + extra) :
        kind \in {"valid", "noheader", "error_connect", "error_header", "error_body"},
        announced \in 1..MaxLength, extra \in 0..1}
    \cup {NjNew("short", announced, sends) :
            announced \in 1..MaxLength, sends \in 0..(MaxLength - 1)}

\* a call of next_jpg taken alone; the thread that runs it keeps running
InitJpg ==
    /\ host = "pi"
    /\ InitCommon
    /\ q = QInit
    /\ tracker = TrackerNew
    /\ backoff = BackoffNew(120)
    /\ dim = DimNone
    /\ nj \in {u \in Upstreams : u.kind = "short" => u.left < u.announced}

NextJpg == NjConnect \/ NjHeader \/ NjRecv \/ NjReturn

SpecJpg == InitJpg /\ [][NextJpg]_vars /\ WF_vars(NextJpg)

\* ----------------------------------------------------------------- claims
\* restore() has returned and video_pipeline has not been called since
RestoreReturned == At("idle") /\ run.restored # "never"

\* C1: after restore() returns, also when the host called it on its own, the
\* camera lease marker does not exist.
C1_NoLeaseAfterRestore == (RestoreReturned /\ run.path = "restored") => ~lease

\* C2: restore() raises no error whatever was started, and every return of
\* restore(), the first and one right after it alike, leaves the same
\* orchestrator state: the process and camera handles None, shutting_down true.
C2_RestoreIdempotent ==
    [][/\ ~cnt'.escaped
       /\ (At("r_clear") /\ ctl'.pc = "idle") =>
             /\ janus_proc' = None /\ gst_proc' = None /\ ffmpeg_proc' = None
             /\ pi_camera' = NoObj
             /\ shutting_down'
             /\ janus_ws' = janus_ws /\ webcam_server' = webcam_server]_vars

\* a second restore() in a row has returned, after a run that had started the
\* gateway
C2_SecondRestoreReturned ==
    /\ RestoreReturned
    /\ run.restored = "again"
    /\ janus_ws # None
    /\ janus_proc = None /\ shutting_down

\* C3: no monitor spawns a process after restore() has set shutting_down.
C3_NoSpawnAfterShutdown ==
    [][shutting_down => ~(JanusRespawn \/ GstRespawn)]_vars

\* what a monitor of a long-running process keeps true while the system is not
\* shutting down
Supervised(mon, handle, kind) ==
    /\ Cardinality(LiveOf(kind)) <= 1
    /\ mon.pc = "read" => mon.pid = handle
    /\ mon.pc = "backoff" => handle \notin Live

FfmpegExitSeen == fm.pc = "read" /\ fm.pid \notin Live /\ fm' # fm /\ ~shutting_down

C6_NoLeaseOffPiPath ==
    (At("idle") /\ run.path \in {"usb", "mjpeg", "failed"}) => ~lease

\* video_pipeline has returned to the host
PipelineReturned == At("idle") /\ run.path \in {"dev", "nonpi", "usb", "pi", "mjpeg", "failed"}

\* C7 (as the code has it): no exception escapes video_pipeline; a failure that
\* reaches its handler is answered by one 'streaming' warning and one restore()
\* before it returns; the failure of the video-pipeline start in a mode other
\* than 'never' does not reach the handler: the MJPEG path is run instead, with
\* no warning and no restore() for it.
C7_FailureHandledOnce ==
    /\ ~cnt.escaped
    /\ run.warns <= 1 /\ run.restores <= 1
    /\ PipelineReturned =>
         /\ run.raised # "none" => (run.warns = 1 /\ run.restores = 1 /\ run.path = "failed")
         /\ run.raised = "none" => (run.warns = 0 /\ run.restores = 0 /\ run.path # "failed")

\* video_pipeline has returned from a run whose failure went through the handler
C7_FailedRunReturned ==
    /\ PipelineReturned
    /\ run.raised \in {"camera", "gateway", "probe", "gst", "encoder", "recording", "mjpeg"}
    /\ run.warns = 1 /\ run.restores = 1
    /\ shutting_down

\* C7 (as the specification has it): every failure at a step of strategy
\* execution, the failure of the video-pipeline start included, ends in one
\* restore() and one warning.
C7_EveryFailureRestores ==
    (PipelineReturned /\ (run.raised # "none" \/ run.absorbed)) =>
        (run.warns = 1 /\ run.restores = 1)

\* C8: the video-pipeline start is attempted at most 6 times; when the last
\* attempt fails, a mode other than 'never' goes on to the MJPEG path with no
\* restore() for that failure, and mode 'never' raises to the handler, which
\* invokes restore().
C8_GstAttemptsBounded ==
    [][/\ ctl'.pc \in {"gst_spawn", "gst_poll", "gst_mon"} => ctl'.n \in 1..GstMaxTries
       /\ (At("gst_poll") /\ ctl'.pc \notin {"gst_poll", "gst_spawn", "gst_mon"}) =>
             /\ ctl.n = GstMaxTries
             /\ IF ctl.compat = "never"
                THEN ctl'.pc = "h_lease" /\ run'.raised = "gst"
                ELSE /\ ctl'.pc = "mj_webcamd"
                     /\ run'.absorbed /\ run'.raised = "none"
                     /\ run'.restores = 0 /\ run'.warns = 0
       /\ (PipelineReturned' /\ run'.raised = "gst") => run'.restores = 1
       /\ (run'.absorbed /\ run'.raised = "none") => run'.restores = 0]_vars

\* the sixth attempt has failed and the MJPEG path is entered
C8_FellBackToMjpeg ==
    /\ At("mj_webcamd")
    /\ ctl.compat = "auto"
    /\ run.absorbed
    /\ gst_proc # None /\ gst_proc \notin Live

\* the frames captured are the frames taken, the frame queued and the frame
\* the capture loop holds for put(), in this order
FrameOrder ==
    /\ Len(q.img_q) <= QueueMaxSize
    /\ q.img_q # <<>> => q.img_q[1] = q.taken + 1
    /\ q.captured = q.taken + Len(q.img_q) + (IF q.pc = "put" THEN 1 ELSE 0)

C10_OneReopenPerClose ==
    [][/\ ws'.unanswered >= 0
       /\ ~shutting_down' => ws'.unanswered = ws'.sleeping
       /\ (ws'.sleeping < ws.sleeping /\ ~shutting_down) =>
             /\ janus_ws' \notin ws.open /\ ws'.open = ws.open \cup {janus_ws'}
             /\ ws'.unanswered = ws.unanswered - 1
       /\ (ws'.sleeping < ws.sleeping /\ shutting_down) =>
             /\ ws'.open = ws.open /\ janus_ws' = janus_ws
       /\ (ws'.open \ ws.open # {}) => (ws'.sleeping < ws.sleeping \/ At("sj_probe") \/ At("idle"))]_vars

\* the first tunnel closed while the system was not shutting down and its
\* on_close has opened the second
C10_Reopened ==
    /\ ~shutting_down
    /\ cnt.runs = 1
    /\ ws.sleeping = 0 /\ ws.unanswered = 0
    /\ cnt.events > 0
    /\ janus_ws \in ws.open /\ janus_ws # 1

\* the latest call was add_connection_error, for category tracker.cat
ErrorAdded == tracker.op = "add_connection_error"

\* C11: add_connection_error(category) sends a notification if and only if,
\* with the new error counted, attempts >= 8 and (attempts >= 10 or errors >=
\* attempts * 0.5) and errors >= attempts * 0.25 for that category, and it
\* sends at most one.
C11_NotifyIffThresholds ==
    ErrorAdded =>
        LET a == tracker.attempts[tracker.cat]
            e == tracker.errors[tracker.cat]
        IN  /\ tracker.sent \in {0, 1}
            /\ tracker.sent = 1 <=>
                 (a >= 8 /\ (a >= 10 \/ 2 * e >= a) /\ 4 * e >= a)
            /\ (a = 7 /\ e = 7) => tracker.sent = 0
            /\ (a = 8 /\ e = 2) => tracker.sent = 0
            /\ (a = 10 /\ e = 3) => tracker.sent = 1

\* the tenth attempt was made and the third error has just been added: the
\* notification is sent
C11_TenAttemptsThreeErrors ==
    /\ ErrorAdded
    /\ tracker.attempts[tracker.cat] = 10 /\ tracker.errors[tracker.cat] = 3
    /\ tracker.sent = 1

\* C12: for every error category the attempt count is at least the number of
\* recorded errors, after any sequence of attempt() and add_connection_error().
C12_AttemptsAtLeastErrors ==
    \A c \in Categories : tracker.attempts[c] >= tracker.errors[c]

\* C13: more() computes its delay from the counter as it was before the call
\* and increments afterwards, so the first three more() after a reset use the
\* exponents -3, -2, -1 and each has a delay before jitter strictly below 1 s.
C13_GraceBeforeIncrement ==
    backoff.since \in 1..3 =>
        (backoff.exp = backoff.since - 4 /\ backoff.pre8 < 8)

\* C14: every delay slept is at most max_seconds * 1.5, and between two resets
\* the delay before jitter never decreases: it doubles until it reaches
\* max_seconds and then stays there.
C14_DelayBoundedMonotone ==
    backoff.since >= 1 =>
        /\ backoff.slept64 <= backoff.max_seconds * 96
        /\ backoff.pre8 >= backoff.prev8
        /\ backoff.prev8 > 0 =>
              backoff.pre8 = (IF 2 * backoff.prev8 > 8 * backoff.max_seconds
                              THEN 8 * backoff.max_seconds ELSE 2 * backoff.prev8)

\* with a ceiling of 3 s the delay has gone 2 s, 3 s, 3 s: the ceiling is
\* reached off a power of two and held
C14_CeilingHeld ==
    /\ backoff.max_seconds = 3
    /\ backoff.since = 6
    /\ backoff.pre8 = 24 /\ backoff.prev8 = 24

\* the tiers as the specification lists them: the largest area of the tier
\* and its bitrate
Tiers == {[upto |-> 129600, rate |-> 200000], [upto |-> 518400, rate |-> 1000000],
          [upto |-> 1512080, rate |-> 3000000]}

\* the bitrate of the lowest tier that holds the area, 6000000 above them all
TierRate(area) ==
    LET fit == {t \in Tiers : area <= t.upto}
    IN  IF fit = {} THEN 6000000
        ELSE (CHOOSE t \in fit : \A o \in fit : t.upto <= o.upto).rate

\* C15: bitrate_for_dim(w, h) is the step function of the area with tiers
\* 200000, 1000000, 3000000 and 6000000: it never decreases when the area
\* grows, and an area exactly at a tier edge gets the lower tier.
C15_BitrateTiers ==
    dim.bitrate # 0 =>
        /\ dim.bitrate = TierRate(dim.img_w * dim.img_h)
        /\ \A w \in WidthsTried, h \in HeightsTried :
              w * h >= dim.img_w * dim.img_h => bitrate_for_dim(w, h) >= dim.bitrate
        /\ (dim.img_w = 480 /\ dim.img_h = 270) => dim.bitrate = 200000
        /\ (dim.img_w = 960 /\ dim.img_h = 540) => dim.bitrate = 1000000
        /\ (dim.img_w = 1640 /\ dim.img_h = 922) => dim.bitrate = 3000000
        /\ (dim.img_w = 1920 /\ dim.img_h = 1080) => dim.bitrate = 6000000

\* the call on the edge 960 x 540 has returned the lower tier
C15_EdgeLowerTier ==
    /\ dim.img_w = 960 /\ dim.img_h = 540
    /\ dim.bitrate = 1000000

\* the step in which the host calls video_pipeline
PipelineCalled == At("idle") /\ cnt'.runs = cnt.runs + 1

\* C16: in both early exits of video_pipeline no local media process is
\* started, no lease is created, no frame server is started, restore() is not
\* invoked and no notification is sent; with JANUS_SERVER set the one effect
\* is the opening of the signaling tunnel, and on a host that is no Pi there
\* is no effect at all.
C16_EarlyExitsInert ==
    [][(host = "dev" \/ host = "nonpi") =>
        /\ alive' = << >> /\ ~lease' /\ webcam_server' = NoObj /\ ~dev'.webUp
        /\ janus_proc' = None /\ gst_proc' = None /\ ffmpeg_proc' = None
        /\ pi_camera' = NoObj
        /\ run'.warns = 0 /\ run'.restores = 0 /\ run'.raised = "none"
        /\ PipelineCalled =>
              /\ ctl'.pc = "idle" /\ run'.path = host
              /\ shutting_down' = shutting_down /\ dev' = dev
              /\ host = "dev" =>
                    /\ janus_ws' \notin ws.open
                    /\ ws' = [ws EXCEPT !.open = @ \cup {janus_ws'}]
              /\ host = "nonpi" => (janus_ws' = janus_ws /\ ws' = ws)]_vars

\* video_pipeline has returned on a host with JANUS_SERVER set, and the
\* tunnel is open
C16_DevTunnelOpened ==
    /\ host = "dev"
    /\ PipelineReturned /\ run.path = "dev"
    /\ janus_ws \in ws.open
    /\ alive = << >>

\* C17: in compatibility mode 'always' video_pipeline does no hardware
\* detection: it never stops the webcam service, never creates the lease,
\* never tries to acquire the camera or to start the video pipeline (gst), and
\* goes from the gateway start directly to the MJPEG path.
C17_AlwaysSkipsDetection ==
    [][ctl'.compat = "always" =>
        /\ dev.webcamd => dev'.webcamd
        /\ lease' => lease
        /\ dev'.camHeld => dev.camHeld
        /\ pi_camera' = NoObj
        /\ LiveOf("gst")' \subseteq LiveOf("gst")
        /\ ctl'.pc \notin {"cam_lease", "cam_acq", "gst_spawn", "gst_poll", "gst_mon",
                           "usb_server", "ff_start", "pi_server", "pi_record"}
        /\ PipelineCalled => (ctl'.pc = "sj_conf" /\ ctl'.cont = "mjpeg")
        /\ (At("sj_probe") /\ ctl'.pc \notin {"sj_probe", "h_lease"}) =>
              ctl'.pc = "mj_webcamd"]_vars

\* a run in mode 'always' has started the gateway and the webcam service and
\* waits for a frame of it
C17_AlwaysOnMjpegPath ==
    /\ ctl.compat = "always"
    /\ At("mj_wait")
    /\ dev.webcamd /\ ~lease /\ ~dev.camHeld
    /\ LiveOf("janus") # {}

\* a poll of start_gst's window finds that the process has exited
PollFindsExit == At("gst_poll") /\ ctl' # ctl /\ gst_proc \notin Live'

\* C18: a start_gst attempt whose process exits during the 5-poll window, with
\* any exit code, 0 included, fails instead of going on to the monitor.
C18_ExitInWindowFails ==
    [][PollFindsExit => ctl'.pc \in {"gst_spawn", "mj_webcamd", "h_lease"}]_vars

\* the step of restore() that follows each of its steps
RestoreOrder == [r_flag |-> "r_janus", r_janus |-> "r_gst", r_gst |-> "r_ffmpeg",
                 r_ffmpeg |-> "r_camera", r_camera |-> "r_webcamd",
                 r_webcamd |-> "r_clear", r_clear |-> "idle"]

\* the control task takes the step of restore() it is at
RestoreStep(pc) == At(pc) /\ ctl' # ctl

\* C19: in restore() a failure while stopping one component (the shutdown
\* request to the frame server, the gateway, the video pipeline, the encoder,
\* stop_recording, close) never prevents the stop of every other started
\* component, the start of the webcam service, or the clearing of the handles:
\* every step of restore() is followed by the next, and each does its work.
C19_RestoreStopsEverything ==
    [][/\ \A pc \in DOMAIN RestoreOrder : RestoreStep(pc) => ctl'.pc = RestoreOrder[pc]
       /\ RestoreStep("r_flag") => ~dev'.webUp
       /\ (RestoreStep("r_janus") /\ janus_proc # None) => janus_proc \notin Live'
       /\ (RestoreStep("r_gst") /\ gst_proc # None) => gst_proc \notin Live'
       /\ (RestoreStep("r_ffmpeg") /\ ffmpeg_proc # None) => ffmpeg_proc \notin Live'
       /\ (RestoreStep("r_camera") /\ pi_camera # NoObj) =>
             (~dev'.recording /\ ~dev'.camHeld)
       /\ RestoreStep("r_webcamd") => dev'.webcamd
       /\ RestoreStep("r_clear") =>
             /\ janus_proc' = None /\ gst_proc' = None /\ ffmpeg_proc' = None
             /\ pi_camera' = NoObj]_vars

\* restore() runs after an MJPEG run: no frame server listens, so the shutdown
\* request has failed, and the gateway has been terminated all the same
C19_StoppedAfterFailedRequest ==
    /\ At("r_gst")
    /\ webcam_server = NoObj
    /\ janus_proc # None /\ janus_proc \notin Live
    /\ ffmpeg_proc \in Live

\* the control task starts the webcam service, in restore() or on entry to
\* the MJPEG path
WebcamdStarted == RestoreStep("r_webcamd") \/ RestoreStep("mj_webcamd")

\* C20: within one video_pipeline run, whenever the webcam service is started
\* the camera is not held by the pipeline and no video-pipeline (gst) process
\* it started is still running.
C20_WebcamdStartsOnFreeDevice ==
    [][(WebcamdStarted /\ cnt.runs = 1) =>
          (~dev.camHeld /\ LiveOf("gst") = {})]_vars

\* the control task opens a tunnel (an on_close that reopens one ends a sleep)
TunnelOpenedByControl ==
    /\ ws'.open \ ws.open # {}
    /\ ws'.sleeping = ws.sleeping

\* C21: with a local gateway the tunnel is opened only after the readiness
\* probe has succeeded; the probe is tried at most 10 times, and when all
\* tries fail the tunnel is not opened and the failure goes to the handler.
C21_TunnelAfterProbe ==
    [][host = "pi" =>
        /\ TunnelOpenedByControl =>
              /\ At("sj_probe") /\ ctl.n \in 1..JanusProbeMaxTries
              /\ LiveOf("janus") # {}
        /\ ctl'.pc = "sj_probe" => ctl'.n \in 1..JanusProbeMaxTries
        /\ (At("sj_probe") /\ ctl'.pc = "h_lease") =>
              /\ ctl.n = JanusProbeMaxTries
              /\ run'.raised = "probe"
              /\ ws' = ws /\ janus_ws' = janus_ws
        /\ (cnt'.runs = 1 /\ run'.raised = "probe") =>
              (janus_ws' = None /\ ws'.open = {})]_vars

\* the probe has succeeded on the USB path of a first run and the tunnel is
\* open
C21_ProbedThenOpened ==
    /\ host = "pi" /\ cnt.runs = 1
    /\ At("gst_spawn") /\ ctl.n = 1
    /\ gst_proc = None
    /\ janus_ws \in ws.open
    /\ LiveOf("janus") # {}

\* C22: a snapshot request does at most 3 re-pulls, 4 dequeues in all, before
\* it returns a frame, whatever the timing of the captures.
C22_SnapshotDequeuesBounded == q.dequeues <= 4

\* C23: next_jpg terminates whatever the upstream does (a valid part, no
\* Content-Length header, a socket error, a peer that closes before all
\* announced bytes have arrived): it returns or fails the request.
C23_NextJpgTerminates == <>(nj.pc \in {"returned", "failed"})

\* the run_janus thread has started a gateway process in this step
GatewaySpawned == janus_proc' # janus_proc /\ janus_proc' # None

\* C24: shutting_down is never cleared once restore() has set it; so in a
\* video_pipeline run that follows a restore() the flag is set, the run_janus
\* thread ends as soon as it has spawned the gateway and never reads from it or
\* respawns it, and the on_close of a closed tunnel opens no new tunnel.
C24_ShuttingDownMonotonic == [][
     /\ shutting_down => shutting_down'
     /\ cnt'.runs > 1 => (shutting_down' /\ jm'.pc \in {"off", "spawn", "exit"})
     /\ (cnt.runs > 1 /\ GatewaySpawned) => (jm.pc = "spawn" /\ jm'.pc = "exit" /\ janus_proc' \in LiveOf("janus")')
     /\ (shutting_down /\ ws'.sleeping < ws.sleeping) => (ws'.open = ws.open /\ janus_ws' = janus_ws)]_vars

\* in the second run the gateway runs with its thread ended, and the tunnel
\* this run opened has closed and its on_close has returned
C24_SecondRunUnsupervised == /\ host = "pi" /\ cnt.runs = 2 /\ cnt.events > 0
    /\ shutting_down /\ At("gst_spawn") /\ jm.pc = "exit"
    /\ janus_proc \in LiveOf("janus")
    /\ janus_ws # None /\ janus_ws \notin ws.open /\ ws.sleeping = 0

=============================================================================
